---- MODULE Spec2Model ----
(***************************************************************************)
(* A model of the matrix-basic crate (src/src/lib.rs): the generic         *)
(* Matrix<T> and its operations.  The element type T is instantiated by    *)
(* the prime field of P elements, an exact field in which -1 # 1, so that   *)
(* sign errors and wrong pivots are visible.  Division by the additive     *)
(* identity aborts, as it does for exact field types.                      *)
(*                                                                         *)
(* Matrices are sequences of rows.  The source indexes from 0; the         *)
(* operators below keep the source's 0-based loop indices and go through   *)
(* At(rows, i, j) == rows[i+1][j+1].                                       *)
(***************************************************************************)
EXTENDS Integers, Sequences, FiniteSets, TLC

\* The element type T: integers modulo the prime P.
P == 3

\* Bounds of the model.
MaxDim == 3      \* largest height and width of an operand of a unary operation
MaxCells == 9    \* largest number of entries of such an operand
MaxRows == 3     \* most rows handed to from()
MaxRowLen == 2   \* longest row handed to from()
BinDim == 3      \* largest height and width of an operand of +, - and *
BinCells == 4    \* largest number of entries of such an operand
OpsDim == 2      \* largest argument of a constructor in a sequence of operations
OpsCells == 4    \* largest number of entries handed to from() in such a sequence

T == 0 .. (P - 1)
T_zero == 0
T_one == 1
T_add(a, b) == (a + b) % P
T_sub(a, b) == (a - b + P) % P
T_mul(a, b) == (a * b) % P
T_neg(a) == (P - a) % P
\* Division, for a divisor that is not the additive identity; every caller
\* tests the divisor first and aborts on T_zero.
T_div(a, b) == T_mul(a, CHOOSE x \in T : (b * x) % P = 1)

\* Outcomes of an operation: a value, a MatrixError, or an abort (panic).
Ok(v) == [tag |-> "Ok", val |-> v]
Err(e) == [tag |-> "Err", val |-> e]
Panic(msg) == [tag |-> "Panic", val |-> msg]

At(rows, i, j) == rows[i + 1][j + 1]

\* Matrix::height, Matrix::width (the latter indexes entries[0]).
height(m) == Len(m)
width(m) == Len(m[1])
is_square(m) == height(m) = width(m)

\* A faulty variant of from: only a longer row counts as unequal.
from_only_longer(entries) ==
    LET row_len == Len(entries[1])
        equal_rows == \A r \in 1 .. Len(entries) : Len(entries[r]) <= row_len
    IN  IF equal_rows THEN Ok(entries) ELSE Err("UnequalRows")

\* Matrix::from
from(entries) ==
    LET row_len == Len(entries[1])
        equal_rows == \A r \in 1 .. Len(entries) : Len(entries[r]) = row_len
    IN  IF equal_rows THEN Ok(entries) ELSE Err("UnequalRows")

\* Matrix::transpose, for a matrix with at least one row
transpose_rows(m) ==
    [i \in 1 .. width(m) |-> [r \in 1 .. height(m) |-> m[r][i]]]

\* Matrix::transpose; width() aborts on a matrix without rows.
transpose(m) ==
    IF Len(m) = 0 THEN Panic("index out of bounds") ELSE Ok(transpose_rows(m))

\* Matrix::submatrix, 0-based row and col
DropAt(s, n) == [k \in 1 .. (Len(s) - 1) |-> IF k <= n THEN s[k] ELSE s[k + 1]]
submatrix(m, row, col) ==
    LET keptRows == IF row < Len(m) THEN DropAt(m, row) ELSE m
    IN  [r \in 1 .. Len(keptRows) |->
            IF col < Len(keptRows[r]) THEN DropAt(keptRows[r], col) ELSE keptRows[r]]

RECURSIVE det(_)
RECURSIVE det_sum(_, _, _)
RECURSIVE det_sum_no_alternation(_, _, _)

\* A faulty variant of det_sum: every term is added, whatever the parity of i.
det_sum_no_alternation(m, i, out) ==
    IF i >= width(m) THEN Ok(out)
    ELSE LET minor == det(submatrix(m, 0, i))
         IN  IF minor.tag # "Ok" THEN Panic("called unwrap() on an Err value")
             ELSE det_sum_no_alternation(m, i + 1, T_add(out, T_mul(At(m, 0, i), minor.val)))

\* Matrix::det, "for i in n": cofactor expansion along the first row.  Every
\* minor is self.submatrix(0, i).det().unwrap(), which aborts on an Err.
det_sum(m, i, out) ==
    IF i >= width(m) THEN Ok(out)
    ELSE LET minor == det(submatrix(m, 0, i))
         IN  IF minor.tag # "Ok" THEN Panic("called unwrap() on an Err value")
             ELSE IF i % 2 = 0
             THEN det_sum(m, i + 1, T_add(out, T_mul(At(m, 0, i), minor.val)))
             ELSE det_sum(m, i + 1, T_sub(out, T_mul(At(m, 0, i), minor.val)))

\* A faulty variant of det: the squareness test lets tall matrices through.
det_tall_as_square(m) ==
    IF Len(m) = 0 THEN Panic("index out of bounds")
    ELSE IF height(m) >= width(m) /\ width(m) >= 1
    THEN IF width(m) = 1 THEN Ok(At(m, 0, 0)) ELSE det_sum(m, 0, T_zero)
    ELSE Err("NotSquare")

\* Matrix::det; is_square() reads width(), which aborts on a matrix without rows.
det(m) ==
    IF Len(m) = 0 THEN Panic("index out of bounds")
    ELSE IF is_square(m)
    THEN IF width(m) = 1 THEN Ok(At(m, 0, 0)) ELSE det_sum(m, 0, T_zero)
    ELSE Err("NotSquare")

\* The value det() returns on a square matrix.
det_square(m) == det(m).val

\* rows.swap(i, j)
Swap(rows, i, j) == [rows EXCEPT ![i + 1] = rows[j + 1], ![j + 1] = rows[i + 1]]

\* The search "for j in (i + 1)..h { if rows[j][c] != 0 { ...; break } }":
\* the first such j, or h when the column is zero below row i.
RECURSIVE FirstNonZero(_, _, _, _)
FirstNonZero(rows, c, j, h) ==
    IF j >= h THEN h
    ELSE IF At(rows, j, c) # T_zero THEN j
    ELSE FirstNonZero(rows, c, j + 1, h)

\* "for k in from..w { rows[j][k] = rows[j][k] - rows[i][k] * ratio }"
RowSub(rowj, rowi, ratio, from_k) ==
    [k \in 1 .. Len(rowj) |->
        IF k - 1 >= from_k THEN T_sub(rowj[k], T_mul(rowi[k], ratio)) ELSE rowj[k]]

\* Matrix::det_in_field, "for j in (i + 1)..h": subtract from every row below
\* row i its multiple of row i, in the columns from i on.
RECURSIVE dif_eliminate(_, _, _, _)
dif_eliminate(rows, i, j, h) ==
    IF j >= h THEN Ok(rows)
    ELSE IF At(rows, i, i) = T_zero THEN Panic("division by zero")
    ELSE LET ratio == T_div(At(rows, j, i), At(rows, i, i))
         IN  dif_eliminate([rows EXCEPT ![j + 1] = RowSub(rows[j + 1], rows[i + 1], ratio, i)],
                           i, j + 1, h)

\* "for (i, row) in rows.iter().enumerate() { multiplier = multiplier * row[i] }"
RECURSIVE dif_product(_, _, _)
dif_product(rows, multiplier, i) ==
    IF i >= Len(rows) THEN multiplier
    ELSE dif_product(rows, T_mul(multiplier, At(rows, i, i)), i + 1)

\* A faulty variant of dif_swapped: the swap does not flip the sign.
dif_swapped_no_flip(multiplier) == multiplier

\* A swap of det_in_field flips the sign of the multiplier.
dif_swapped(multiplier) == T_neg(multiplier)

\* Matrix::det_in_field, "for i in 0..(h - 1)"
RECURSIVE dif_loop(_, _, _, _)
dif_loop(rows, multiplier, i, h) ==
    IF i >= h - 1 THEN Ok(dif_product(rows, multiplier, 0))
    ELSE LET j == FirstNonZero(rows, i, i + 1, h)
             swap == At(rows, i, i) = T_zero
             rows1 == IF swap /\ j < h THEN Swap(rows, i, j) ELSE rows
             mult1 == IF swap /\ j < h THEN dif_swapped(multiplier) ELSE multiplier
             elim == dif_eliminate(rows1, i, i + 1, h)
         IN  IF swap /\ j = h THEN Ok(T_zero)
             ELSE IF elim.tag # "Ok" THEN elim
             ELSE dif_loop(elim.val, mult1, i + 1, h)

\* Matrix::det_in_field
det_in_field(m) ==
    IF Len(m) = 0 THEN Panic("index out of bounds")
    ELSE IF is_square(m) THEN dif_loop(m, T_one, 0, height(m)) ELSE Err("NotSquare")

\* Matrix::row_echelon, "for j in (i + 1)..h": the pivot is rows[i][c] with
\* c = i + offset.  Indexing column c aborts when c is not below w, and the
\* division aborts on a zero pivot.
RECURSIVE re_eliminate(_, _, _, _, _)
re_eliminate(rows, i, c, j, h) ==
    IF j >= h THEN Ok(rows)
    ELSE IF c >= Len(rows[1]) THEN Panic("index out of bounds")
    ELSE IF At(rows, i, c) = T_zero THEN Panic("division by zero")
    ELSE LET ratio == T_div(At(rows, j, c), At(rows, i, c))
         IN  re_eliminate([rows EXCEPT ![j + 1] = RowSub(rows[j + 1], rows[i + 1], ratio, c)],
                          i, c, j + 1, h)

\* The offset after the pivot search of row i found the column zero.
re_next_offset(offset) == offset + 1

\* Matrix::row_echelon, "for i in 0..(h - 1)"
RECURSIVE re_loop(_, _, _, _, _)
re_loop(rows, offset, i, h, w) ==
    IF i >= h - 1 THEN Ok(rows)
    ELSE IF i + offset >= w THEN Ok(rows)
    ELSE LET j == FirstNonZero(rows, i + offset, i + 1, h)
             swap == At(rows, i, i + offset) = T_zero
             rows1 == IF swap /\ j < h THEN Swap(rows, i, j) ELSE rows
             offset1 == IF swap /\ j = h THEN re_next_offset(offset) ELSE offset
             elim == re_eliminate(rows1, i, i + offset1, i + 1, h)
         IN  IF elim.tag # "Ok" THEN elim
             ELSE re_loop(elim.val, offset1, i + 1, h, w)

\* Matrix::row_echelon
row_echelon(m) ==
    IF Len(m) = 0 THEN Panic("index out of bounds")
    ELSE re_loop(m, 0, 0, height(m), width(m))

\* Matrix::column_echelon
column_echelon(m) ==
    LET t == transpose(m)
        e == row_echelon(t.val)
    IN  IF t.tag # "Ok" THEN t
        ELSE IF e.tag # "Ok" THEN e
        ELSE transpose(e.val)

\* Matrix::reduced_row_echelon, "while row[offset] == T::zero() { offset += 1 }":
\* the offset of the first nonzero entry at or after offset, or Len(row) when
\* the scan runs off the row (where the index aborts).
RECURSIVE rre_skip(_, _)
rre_skip(row, offset) ==
    IF offset >= Len(row) THEN Len(row)
    ELSE IF row[offset + 1] # T_zero THEN offset
    ELSE rre_skip(row, offset + 1)

\* "for entry in row.iter_mut().skip(offset) { *entry = *entry / divisor }"
rre_divide(row, offset, divisor) ==
    [k \in 1 .. Len(row) |-> IF k - 1 >= offset THEN T_div(row[k], divisor) ELSE row[k]]

\* Matrix::reduced_row_echelon, "for row in &mut echelon.entries"
RECURSIVE rre_loop(_, _, _)
rre_loop(rows, offset, r) ==
    IF r >= Len(rows) THEN Ok(rows)
    ELSE LET o == rre_skip(rows[r + 1], offset)
         IN  IF o >= Len(rows[r + 1]) THEN Panic("index out of bounds")
             ELSE rre_loop([rows EXCEPT ![r + 1] = rre_divide(rows[r + 1], o, rows[r + 1][o + 1])],
                           o + 1, r + 1)

\* Matrix::reduced_row_echelon
reduced_row_echelon(m) ==
    LET echelon == row_echelon(m)
    IN  IF echelon.tag # "Ok" THEN echelon ELSE rre_loop(echelon.val, 0, 0)

\* Matrix::zero
zero(h, w) == [r \in 1 .. h |-> [c \in 1 .. w |-> T_zero]]

\* Matrix::identity
identity(size) == [r \in 1 .. size |-> [c \in 1 .. size |-> IF r = c THEN T_one ELSE T_zero]]

\* Matrix::diagonal_matrix
diagonal_matrix(diag) ==
    [r \in 1 .. Len(diag) |-> [c \in 1 .. Len(diag) |-> IF r = c THEN diag[r] ELSE T_zero]]

\* Matrix::trace
RECURSIVE trace_sum(_, _, _)
trace_sum(m, i, out) ==
    IF i >= height(m) THEN out ELSE trace_sum(m, i + 1, T_add(out, At(m, i, i)))
trace(m) ==
    IF Len(m) = 0 THEN Panic("index out of bounds")
    ELSE IF is_square(m) THEN Ok(trace_sum(m, 1, At(m, 0, 0))) ELSE Err("NotSquare")

\* Matrix::mul_scalar
mul_scalar(m, scalar) ==
    [r \in 1 .. Len(m) |-> [c \in 1 .. Len(m[r]) |-> T_mul(m[r][c], scalar)]]

\* Matrix::inverse, forward elimination, "for j in (i + 1)..h": the row
\* operation on rows in the columns from i on, and on out in every column.
RECURSIVE inv_eliminate(_, _, _, _, _)
inv_eliminate(rows, out, i, j, h) ==
    IF j >= h THEN Ok(<<rows, out>>)
    ELSE IF At(rows, i, i) = T_zero THEN Panic("division by zero")
    ELSE LET ratio == T_div(At(rows, j, i), At(rows, i, i))
         IN  inv_eliminate([rows EXCEPT ![j + 1] = RowSub(rows[j + 1], rows[i + 1], ratio, i)],
                           [out EXCEPT ![j + 1] = RowSub(out[j + 1], out[i + 1], ratio, 0)],
                           i, j + 1, h)

\* Matrix::inverse, "First we get row echelon form": "for i in 0..(h - 1)"
RECURSIVE inv_forward(_, _, _, _)
inv_forward(rows, out, i, h) ==
    IF i >= h - 1 THEN Ok(<<rows, out>>)
    ELSE LET j == FirstNonZero(rows, i, i + 1, h)
             swap == At(rows, i, i) = T_zero
             rows1 == IF swap /\ j < h THEN Swap(rows, i, j) ELSE rows
             out1 == IF swap /\ j < h THEN Swap(out, i, j) ELSE out
             elim == inv_eliminate(rows1, out1, i, i + 1, h)
         IN  IF swap /\ j = h THEN Err("Singular")
             ELSE IF elim.tag # "Ok" THEN elim
             ELSE inv_forward(elim.val[1], elim.val[2], i + 1, h)

\* "for entry in rows[i].iter_mut().skip(i) { *entry = *entry / divisor }"
inv_divide_row(row, i, divisor) ==
    [k \in 1 .. Len(row) |-> IF k - 1 >= i THEN T_div(row[k], divisor) ELSE row[k]]

\* "for entry in out[i].iter_mut() { *entry = *entry / divisor }"
inv_divide_out(row, divisor) == [k \in 1 .. Len(row) |-> T_div(row[k], divisor)]

\* A faulty variant of inv_reduce: the loop stops one row early, so the last
\* diagonal entry is neither tested nor divided by.
RECURSIVE inv_reduce_short(_, _, _, _)
inv_reduce_short(rows, out, i, h) ==
    IF i >= h - 1 THEN Ok(<<rows, out>>)
    ELSE IF At(rows, i, i) = T_zero THEN Err("Singular")
    ELSE LET divisor == At(rows, i, i)
         IN  inv_reduce_short([rows EXCEPT ![i + 1] = inv_divide_row(rows[i + 1], i, divisor)],
                              [out EXCEPT ![i + 1] = inv_divide_out(out[i + 1], divisor)],
                              i + 1, h)

\* Matrix::inverse, "Then we reduce the rows": "for i in 0..h"
RECURSIVE inv_reduce(_, _, _, _)
inv_reduce(rows, out, i, h) ==
    IF i >= h THEN Ok(<<rows, out>>)
    ELSE IF At(rows, i, i) = T_zero THEN Err("Singular")
    ELSE LET divisor == At(rows, i, i)
         IN  inv_reduce([rows EXCEPT ![i + 1] = inv_divide_row(rows[i + 1], i, divisor)],
                        [out EXCEPT ![i + 1] = inv_divide_out(out[i + 1], divisor)],
                        i + 1, h)

\* A faulty variant of inv_back_ratio: the indices are exchanged.
inv_back_ratio_exchanged(rows, j, i) == At(rows, i, j)

\* The ratio of the upside down row reduction of row j by row i.
inv_back_ratio(rows, j, i) == At(rows, j, i)

\* Matrix::inverse, "for j in (0..i).rev()", j counting down from i - 1
RECURSIVE inv_back_rows(_, _, _, _)
inv_back_rows(rows, out, i, j) ==
    IF j < 0 THEN out
    ELSE inv_back_rows(rows,
                       [out EXCEPT ![j + 1] =
                           RowSub(out[j + 1], out[i + 1], inv_back_ratio(rows, j, i), 0)],
                       i, j - 1)

\* Matrix::inverse, "Finally, we do upside down row reduction": "for i in (1..h).rev()"
RECURSIVE inv_backward(_, _, _)
inv_backward(rows, out, i) ==
    IF i < 1 THEN out
    ELSE inv_backward(rows, inv_back_rows(rows, out, i, i - 1), i - 1)

\* Matrix::inverse
inverse(m) ==
    IF Len(m) = 0 THEN Panic("index out of bounds")
    ELSE IF ~is_square(m) THEN Err("NotSquare")
    ELSE LET h == height(m)
             fwd == inv_forward(m, identity(h), 0, h)
             red == inv_reduce(fwd.val[1], fwd.val[2], 0, h)
         IN  IF fwd.tag # "Ok" THEN fwd
             ELSE IF red.tag # "Ok" THEN red
             ELSE Ok(inv_backward(red.val[1], red.val[2], h - 1))

\* A faulty variant of mul_dot: the loop leaves out the last term.
RECURSIVE mul_dot_short(_, _, _, _)
mul_dot_short(row, col, i, prod) ==
    IF i >= Len(row) - 1 THEN prod
    ELSE mul_dot_short(row, col, i + 1, T_add(prod, T_mul(row[i + 1], col[i + 1])))

\* impl Mul for Matrix, "for i in 1..width { prod = prod + (row[i] * col[i]) }"
RECURSIVE mul_dot(_, _, _, _)
mul_dot(row, col, i, prod) ==
    IF i >= Len(row) THEN prod
    ELSE mul_dot(row, col, i + 1, T_add(prod, T_mul(row[i + 1], col[i + 1])))

\* A faulty variant of mul: new_row is not started afresh for every row, so
\* each row of the product also holds the rows before it.
RECURSIVE ConcatRows(_, _)
ConcatRows(rows, r) == IF r = 0 THEN <<>> ELSE ConcatRows(rows, r - 1) \o rows[r]
mul_row_not_reset(x, y) ==
    IF Len(x) = 0 THEN Panic("index out of bounds")
    ELSE IF width(x) # height(y)
    THEN Panic("row length of first matrix != column length of second matrix")
    ELSE IF Len(y) = 0 THEN Panic("index out of bounds")
    ELSE LET cols == transpose_rows(y)
             rows == [r \in 1 .. Len(x) |->
                        [c \in 1 .. Len(cols) |->
                            mul_dot(x[r], cols[c], 1, T_mul(x[r][1], cols[c][1]))]]
         IN  Ok([r \in 1 .. Len(x) |-> ConcatRows(rows, r)])

\* impl Mul for Matrix.  width() aborts on a left operand without rows, and
\* columns() transposes the right operand, which aborts when it has no rows.
mul(a, b) ==
    IF Len(a) = 0 THEN Panic("index out of bounds")
    ELSE IF width(a) # height(b)
    THEN Panic("row length of first matrix != column length of second matrix")
    ELSE IF Len(b) = 0 THEN Panic("index out of bounds")
    ELSE LET cols == transpose_rows(b)
         IN  Ok([r \in 1 .. Len(a) |->
                   [c \in 1 .. Len(cols) |->
                       mul_dot(a[r], cols[c], 1, T_mul(a[r][1], cols[c][1]))]])

\* impl Add for Matrix
add(a, b) ==
    IF height(a) # height(b) THEN Panic("provided matrices have different dimensions")
    ELSE IF Len(a) = 0 THEN Panic("index out of bounds")
    ELSE IF width(a) # width(b) THEN Panic("provided matrices have different dimensions")
    ELSE Ok([r \in 1 .. Len(a) |-> [c \in 1 .. Len(b[r]) |-> T_add(a[r][c], b[r][c])]])

\* impl Neg for Matrix
neg(m) == [r \in 1 .. Len(m) |-> [c \in 1 .. Len(m[r]) |-> T_neg(m[r][c])]]

\* A faulty variant of sub: the right operand is not negated.
sub_no_neg(x, y) ==
    IF height(x) # height(y) THEN Panic("provided matrices have different dimensions")
    ELSE IF Len(x) = 0 THEN Panic("index out of bounds")
    ELSE IF width(x) # width(y) THEN Panic("provided matrices have different dimensions")
    ELSE add(x, y)

\* impl Sub for Matrix
sub(a, b) ==
    IF height(a) # height(b) THEN Panic("provided matrices have different dimensions")
    ELSE IF Len(a) = 0 THEN Panic("index out of bounds")
    ELSE IF width(a) # width(b) THEN Panic("provided matrices have different dimensions")
    ELSE add(a, neg(b))

(***************************************************************************)
(* The state: the operands handed to the library, the operation applied    *)
(* last and its outcome.                                                   *)
(***************************************************************************)
VARIABLES a, b, op, out
vars == <<a, b, op, out>>

\* The h x w row collections over T.
Rect(h, w) == [1 .. h -> [1 .. w -> T]]

\* Operands of the unary operations: at least one row, rows of one length.
Operands ==
    UNION {Rect(h, w) : <<h, w>> \in {d \in (1 .. MaxDim) \X (0 .. MaxDim) : d[1] * d[2] <= MaxCells}}

\* Spec: a matrix is constructed by from() and one operation is applied to it.
Init ==
    /\ a \in Operands
    /\ b = <<>>
    /\ op = "from"
    /\ out = from(a)

Apply(name, result) ==
    /\ op = "from"
    /\ out.tag = "Ok"
    /\ op' = name
    /\ out' = result
    /\ UNCHANGED <<a, b>>

Det == Apply("det", det(out.val))
DetInField == Apply("det_in_field", det_in_field(out.val))
RowEchelon == Apply("row_echelon", row_echelon(out.val))
ReducedRowEchelon == Apply("reduced_row_echelon", reduced_row_echelon(out.val))
Trace == Apply("trace", trace(out.val))
Inverse == Apply("inverse", inverse(out.val))

Next ==
    \/ Det
    \/ DetInField
    \/ RowEchelon
    \/ ReducedRowEchelon
    \/ Trace
    \/ Inverse

Spec == Init /\ [][Next]_vars

(***************************************************************************)
(* SpecFrom: from() is applied to any nonempty collection of rows, ragged  *)
(* ones and empty rows included, and an accepted matrix is transposed      *)
(* twice.  The entries are copied, never computed with, so two values       *)
(* suffice to tell entries apart.                                          *)
(***************************************************************************)
FromT == {T_zero, T_one}
FromRows == UNION {[1 .. n -> FromT] : n \in 0 .. MaxRowLen}
FromInputs == UNION {[1 .. n -> FromRows] : n \in 1 .. MaxRows}

InitFrom ==
    /\ a \in FromInputs
    /\ b = <<>>
    /\ op = "input"
    /\ out = Ok(a)

From ==
    /\ op = "input"
    /\ op' = "from"
    /\ out' = from(a)
    /\ UNCHANGED <<a, b>>

Transpose ==
    /\ op \in {"from", "transpose"}
    /\ out.tag = "Ok"
    /\ op' = IF op = "from" THEN "transpose" ELSE "transpose_transpose"
    /\ out' = transpose(out.val)
    /\ UNCHANGED <<a, b>>

NextFrom ==
    \/ From
    \/ Transpose

SpecFrom == InitFrom /\ [][NextFrom]_vars

(***************************************************************************)
(* SpecBin: two matrices are constructed and one of *, +, - is applied to  *)
(* them, or the first is negated.                                          *)
(***************************************************************************)
BinOperands ==
    UNION {Rect(h, w) : <<h, w>> \in {d \in (1 .. BinDim) \X (0 .. BinDim) : d[1] * d[2] <= BinCells}}

InitBin ==
    /\ a \in BinOperands
    /\ b \in BinOperands
    /\ op = "from"
    /\ out = from(b)

ApplyBin(name, result) ==
    /\ op = "from"
    /\ op' = name
    /\ out' = result
    /\ UNCHANGED <<a, b>>

Mul == ApplyBin("mul", mul(a, b))
Add == ApplyBin("add", add(a, b))
Sub == ApplyBin("sub", sub(a, b))
Neg == ApplyBin("neg", Ok(neg(a)))

NextBin ==
    \/ Mul
    \/ Add
    \/ Sub
    \/ Neg

SpecBin == InitBin /\ [][NextBin]_vars

(***************************************************************************)
(* Notions the properties are stated with.                                 *)
(***************************************************************************)
\* The 0-based column of the first nonzero entry of a row, Len(row) if none.
RECURSIVE LeadFrom(_, _)
LeadFrom(row, c) ==
    IF c >= Len(row) THEN Len(row)
    ELSE IF row[c + 1] # T_zero THEN c
    ELSE LeadFrom(row, c + 1)
Lead(row) == LeadFrom(row, 0)

\* Echelon form: every leading entry is strictly right of the one of the row
\* above, and the zero rows come last.
IsEchelon(m) ==
    \A r \in 1 .. (Len(m) - 1) :
        \/ Lead(m[r + 1]) = Len(m[r + 1])
        \/ Lead(m[r]) < Lead(m[r + 1])

\* Every leading entry is the multiplicative identity.
LeadingOnes(m) ==
    \A r \in 1 .. Len(m) : Lead(m[r]) < Len(m[r]) => m[r][Lead(m[r]) + 1] = T_one

\* m is a matrix of h rows of w entries each.
HasDims(m, h, w) == Len(m) = h /\ \A r \in 1 .. Len(m) : Len(m[r]) = w

\* The sum over k in 0 .. n-1 of x(i,k) * y(k,j), 0-based.
RECURSIVE DotSum(_, _, _, _, _)
DotSum(x, y, i, j, n) ==
    IF n = 0 THEN 0 ELSE (DotSum(x, y, i, j, n - 1) + At(x, i, n - 1) * At(y, n - 1, j)) % P

\* C1: when inverse() returns Ok(B) for the square matrix A, A * B is the
\* identity of A's height; and inverse() returns Ok whenever the determinant
\* of the square matrix A is not zero.
C1_InverseTimesSelf ==
    op = "inverse" /\ is_square(a) =>
        /\ out.tag = "Ok" => mul(a, out.val) = Ok(identity(height(a)))
        /\ det_square(a) # T_zero => out.tag = "Ok"

\* C1's case: a 3 x 3 matrix whose first pivot is zero was inverted, and
\* the inverse is not the identity.
C1_Witness ==
    /\ op = "inverse"
    /\ out.tag = "Ok"
    /\ height(a) = 3
    /\ At(a, 0, 0) = T_zero
    /\ At(a, 0, 2) # T_zero
    /\ out.val # identity(3)
    /\ out.val # a

\* C2: on every square matrix det_in_field() returns what det() returns, row
\* swaps and the early return on a zero pivot column included.
C2_DetAgreement ==
    op = "det_in_field" /\ is_square(a) => out.tag = "Ok" /\ out = det(a)

\* C2's case: the first pivot is zero and forces a swap, after which the
\* second pivot column is zero and forces the early return.
C2_Witness ==
    /\ op = "det_in_field"
    /\ a = <<<<0, 0, 1>>, <<1, 0, 0>>, <<0, 0, 1>>>>
    /\ out = Ok(T_zero)

\* A second case of C2: a swap, and a determinant that is not zero.
C2_SwapNonZero ==
    /\ op = "det_in_field"
    /\ height(a) = 3
    /\ is_square(a)
    /\ At(a, 0, 0) = T_zero
    /\ out.tag = "Ok"
    /\ out.val # T_zero

\* C3: on every matrix with at least one row and one column row_echelon()
\* completes and returns a matrix of the same dimensions in echelon form.
C3_RowEchelon ==
    op = "row_echelon" /\ width(a) >= 1 =>
        /\ out.tag = "Ok"
        /\ HasDims(out.val, height(a), width(a))
        /\ IsEchelon(out.val)

\* C4: on every matrix reduced_row_echelon() completes and returns a matrix
\* in echelon form whose leading entries are all the multiplicative identity.
C4_ReducedRowEchelon ==
    op = "reduced_row_echelon" /\ width(a) >= 1 =>
        /\ out.tag = "Ok"
        /\ IsEchelon(out.val)
        /\ LeadingOnes(out.val)

\* C5: on a square matrix inverse() returns Singular exactly when the
\* determinant is the additive identity, and Ok exactly when it is not.
C5_SingularIffDetZero ==
    op = "inverse" /\ is_square(a) =>
        /\ out = Err("Singular") <=> det_square(a) = T_zero
        /\ out.tag = "Ok" <=> det_square(a) # T_zero

\* C5's case: a singular 3 x 3 matrix without a zero entry on its diagonal
\* and without a zero column was rejected as Singular.
C5_Witness ==
    /\ op = "inverse"
    /\ height(a) = 3
    /\ is_square(a)
    /\ \A i \in 0 .. 2 : At(a, i, i) # T_zero
    /\ out = Err("Singular")

\* C6: det(), det_in_field(), trace() and inverse() return the error
\* NotSquare on exactly the matrices whose height differs from their width,
\* and do not abort on those.
C6_NotSquare ==
    op \in {"det", "det_in_field", "trace", "inverse"} =>
        /\ out = Err("NotSquare") <=> height(a) # width(a)
        /\ height(a) # width(a) => out.tag # "Panic"

\* C6's case: trace() was applied to a matrix with more columns than rows.
C6_Witness ==
    /\ op = "trace"
    /\ height(a) = 2
    /\ width(a) = 3
    /\ out = Err("NotSquare")

\* C7: from() on a nonempty collection of rows returns UnequalRows when some
\* row's length differs from the first row's, and otherwise the matrix
\* whose rows are the given rows in the given order.
C7_FromChecksRowLengths ==
    op = "from" =>
        IF \E r \in 1 .. Len(a) : Len(a[r]) # Len(a[1])
        THEN out = Err("UnequalRows")
        ELSE out = Ok(a)

\* C7's case: the third row is the first that differs from the first row,
\* and it is the shorter one.
C7_Witness ==
    /\ op = "from"
    /\ Len(a) = 3
    /\ Len(a[1]) = 2
    /\ Len(a[2]) = 2
    /\ Len(a[3]) = 1
    /\ out = Err("UnequalRows")

\* C8: when A's width is B's height, A * B has A's height and B's width and
\* its entry (i, j) is the sum over k of A(i,k) * B(k,j); otherwise the
\* multiplication aborts.
C8_MulIsMatrixProduct ==
    op = "mul" =>
        IF width(a) = height(b)
        THEN /\ out.tag = "Ok"
             /\ HasDims(out.val, height(a), width(b))
             /\ \A i \in 0 .. (height(a) - 1) : \A j \in 0 .. (width(b) - 1) :
                    At(out.val, i, j) = DotSum(a, b, i, j, width(a))
        ELSE out.tag = "Panic"

\* C8's case: a product with three terms per entry, the last of them not zero.
C8_Witness ==
    /\ op = "mul"
    /\ width(a) = 3
    /\ height(b) = 3
    /\ width(b) = 1
    /\ At(a, 0, 2) # T_zero
    /\ At(b, 2, 0) # T_zero
    /\ out.tag = "Ok"

\* A second case of C8: the dimensions do not fit and the product aborts.
C8_MismatchAborts ==
    /\ op = "mul"
    /\ width(a) = 2
    /\ height(b) = 1
    /\ out.tag = "Panic"

SameDims(x, y) == height(x) = height(y) /\ width(x) = width(y)

\* C9: for matrices of equal dimensions A + B is the element-wise sum with
\* the same dimensions, A - B is A + (-B), which is the element-wise
\* difference, and A + (-A) is the zero matrix of A's dimensions; when the
\* heights or the widths differ, + and - abort.
C9_AddSubNeg ==
    /\ op = "add" =>
         IF SameDims(a, b)
         THEN /\ out.tag = "Ok"
              /\ HasDims(out.val, height(a), width(a))
              /\ \A i \in 0 .. (height(a) - 1) : \A j \in 0 .. (width(a) - 1) :
                     At(out.val, i, j) = (At(a, i, j) + At(b, i, j)) % P
         ELSE out.tag = "Panic"
    /\ op = "sub" =>
         IF SameDims(a, b)
         THEN /\ out.tag = "Ok"
              /\ out = add(a, neg(b))
              /\ \A i \in 0 .. (height(a) - 1) : \A j \in 0 .. (width(a) - 1) :
                     (At(out.val, i, j) + At(b, i, j)) % P = At(a, i, j)
         ELSE out.tag = "Panic"
    /\ op = "neg" => add(a, out.val) = Ok(zero(height(a), width(a)))

\* C9's case: a difference of 2 x 2 matrices that is neither operand.
C9_Witness ==
    /\ op = "sub"
    /\ height(a) = 2
    /\ width(a) = 2
    /\ SameDims(a, b)
    /\ out.tag = "Ok"
    /\ out.val # a
    /\ out.val # b

\* A second case of C9: the widths differ and the sum aborts.
C9_MismatchAborts ==
    /\ op = "add"
    /\ height(a) = height(b)
    /\ width(a) # width(b)
    /\ out.tag = "Panic"

\* C10: for every matrix A that from() accepts, A.transpose() has A's width
\* as height and A's height as width, and A.transpose().transpose()
\* completes and equals A.
C10_TransposeInvolutive ==
    /\ op = "transpose" =>
         out.tag = "Ok" /\ HasDims(out.val, Len(a[1]), Len(a))
    /\ op = "transpose_transpose" => out = Ok(a)

\* C10 on the matrices with at least one column: there the claim's case is
\* a matrix that is not square, transposed twice.
C10_OnNonEmptyRows ==
    Len(a[1]) >= 1 => C10_TransposeInvolutive

C10_NonSquareTwice ==
    /\ op = "transpose_transpose"
    /\ Len(a) = 3
    /\ Len(a[1]) = 2
    /\ out = Ok(a)

\* The permutations of 0 .. n-1, as functions.
Perms(n) == {f \in [0 .. (n - 1) -> 0 .. (n - 1)] : \A i, j \in 0 .. (n - 1) : f[i] = f[j] => i = j}

\* The number of inversions of a permutation; its sign is + when it is even.
Inversions(f, n) == Cardinality({p \in (0 .. (n - 1)) \X (0 .. (n - 1)) : p[1] < p[2] /\ f[p[1]] > f[p[2]]})

\* The product over the rows i < k of m(i, f(i)), modulo P.
RECURSIVE PermProduct(_, _, _)
PermProduct(m, f, k) ==
    IF k = 0 THEN 1 ELSE (PermProduct(m, f, k - 1) * At(m, k - 1, f[k - 1])) % P

\* The signed term of a permutation in the Leibniz sum, modulo P.
LeibnizTerm(m, f, n) ==
    IF Inversions(f, n) % 2 = 0 THEN PermProduct(m, f, n) ELSE (P - PermProduct(m, f, n)) % P

RECURSIVE SumTerms(_, _, _)
SumTerms(m, S, n) ==
    IF S = {} THEN 0
    ELSE LET f == CHOOSE g \in S : TRUE
         IN  (LeibnizTerm(m, f, n) + SumTerms(m, S \ {f}, n)) % P

\* The determinant of the square matrix m by the permutation sum.
Leibniz(m) == SumTerms(m, Perms(height(m)), height(m))

\* The product of the diagonal entries of the first k rows, modulo P.
RECURSIVE DiagProduct(_, _)
DiagProduct(m, k) == IF k = 0 THEN 1 ELSE (DiagProduct(m, k - 1) * At(m, k - 1, k - 1)) % P

IsTriangular(m) ==
    \/ \A i, j \in 0 .. (height(m) - 1) : i > j => At(m, i, j) = T_zero
    \/ \A i, j \in 0 .. (height(m) - 1) : i < j => At(m, i, j) = T_zero

\* C11: on a square n x n matrix det() returns the determinant of the
\* permutation sum; the 1 x 1 case returns the sole entry; every recursive
\* call on submatrix(0, i) is on a square (n-1) x (n-1) matrix and returns no
\* error; and on a triangular matrix the result is the product of the
\* diagonal entries.
C11_DetIsLeibniz ==
    op = "det" /\ is_square(a) =>
        /\ out = Ok(Leibniz(a))
        /\ width(a) = 1 => out = Ok(At(a, 0, 0))
        /\ width(a) > 1 =>
             \A i \in 0 .. (width(a) - 1) :
                 /\ HasDims(submatrix(a, 0, i), height(a) - 1, width(a) - 1)
                 /\ det(submatrix(a, 0, i)).tag = "Ok"
        /\ IsTriangular(a) => out = Ok(DiagProduct(a, height(a)))

\* C11's case: the determinant of a 3 x 3 matrix that is not triangular and
\* has no zero in its first row, so that terms of both signs count.
C11_Witness ==
    /\ op = "det"
    /\ height(a) = 3
    /\ is_square(a)
    /\ ~IsTriangular(a)
    /\ \A i \in 0 .. 2 : At(a, 0, i) # T_zero
    /\ out.tag = "Ok"
    /\ out.val # T_zero

\* A second case of C11: a triangular 3 x 3 matrix with a nonzero determinant
\* and a nonzero entry off the diagonal.
C11_Triangular ==
    /\ op = "det"
    /\ height(a) = 3
    /\ is_square(a)
    /\ IsTriangular(a)
    /\ At(a, 0, 1) # T_zero
    /\ out.tag = "Ok"
    /\ out.val # T_zero

(***************************************************************************)
(* SpecOps: a matrix is made by one of the constructors and then any       *)
(* sequence of the operations that return a matrix is applied, each to the *)
(* matrix the one before returned.  a is the receiver (the argument, for a *)
(* constructor), b the other argument (for +, - and * its dimensions), out *)
(* the outcome.  usize arguments start at 0, and submatrix() takes indices *)
(* in and out of range.                                                    *)
(***************************************************************************)
OpsRows == UNION {[1 .. n -> T] : n \in 0 .. OpsDim}
RECURSIVE TotalLen(_, _)
TotalLen(rows, r) == IF r = 0 THEN 0 ELSE TotalLen(rows, r - 1) + Len(rows[r])
OpsInputs ==
    {rows \in UNION {[1 .. n -> OpsRows] : n \in 1 .. OpsDim} : TotalLen(rows, Len(rows)) <= OpsCells}

\* The other operand of +, - and *: the matrices a successful from() makes
\* of the inputs with entries zero and one.  Adding and subtracting these
\* reaches every entry value in the receiver.
OpsOthers ==
    {rows \in OpsInputs :
        /\ from(rows).tag = "Ok"
        /\ \A r \in 1 .. Len(rows) : \A c \in 1 .. Len(rows[r]) : rows[r][c] \in FromT}

InitOps ==
    \/ \E rows \in OpsInputs :
          a = rows /\ b = <<>> /\ op = "from" /\ out = from(rows)
    \/ \E h \in 0 .. OpsDim : \E w \in 0 .. OpsDim :
          a = h /\ b = w /\ op = "zero" /\ out = Ok(zero(h, w))
    \/ \E size \in 0 .. OpsDim :
          a = size /\ b = <<>> /\ op = "identity" /\ out = Ok(identity(size))
    \/ \E diag \in OpsRows :
          a = diag /\ b = <<>> /\ op = "diagonal_matrix" /\ out = Ok(diagonal_matrix(diag))

\* A method call on the matrix the operation before returned.
Call(name, other, result) ==
    /\ out.tag = "Ok"
    /\ a' = out.val
    /\ b' = other
    /\ op' = name
    /\ out' = result

OpTranspose == Call("transpose", <<>>, transpose(out.val))
OpSubmatrix ==
    \E row \in 0 .. OpsDim : \E col \in 0 .. OpsDim :
        Call("submatrix", <<row, col>>, Ok(submatrix(out.val, row, col)))
OpRowEchelon == Call("row_echelon", <<>>, row_echelon(out.val))
OpColumnEchelon == Call("column_echelon", <<>>, column_echelon(out.val))
OpReducedRowEchelon == Call("reduced_row_echelon", <<>>, reduced_row_echelon(out.val))
OpInverse == Call("inverse", <<>>, inverse(out.val))
OpNeg == Call("neg", <<>>, Ok(neg(out.val)))
OpMulScalar == \E scalar \in T : Call("mul_scalar", scalar, Ok(mul_scalar(out.val, scalar)))
\* Of the other operand of +, - and * the state keeps the dimensions.
Dims(m) == <<height(m), width(m)>>
OpAdd == \E other \in OpsOthers : Call("add", Dims(other), add(out.val, other))
OpSub == \E other \in OpsOthers : Call("sub", Dims(other), sub(out.val, other))
OpMul == \E other \in OpsOthers : Call("mul", Dims(other), mul(out.val, other))

NextOps ==
    \/ OpTranspose
    \/ OpSubmatrix
    \/ OpRowEchelon
    \/ OpColumnEchelon
    \/ OpReducedRowEchelon
    \/ OpInverse
    \/ OpNeg
    \/ OpMulScalar
    \/ OpAdd
    \/ OpSub
    \/ OpMul

SpecOps == InitOps /\ [][NextOps]_vars

\* C12: every matrix a completed public operation returns has at least one
\* row and at least one column.
C12_DimsAtLeastOne ==
    out.tag = "Ok" =>
        /\ Len(out.val) >= 1
        /\ \A r \in 1 .. Len(out.val) : Len(out.val[r]) >= 1

\* C13: every matrix a completed public operation returns has rows of one
\* length, and mul_scalar leaves the height and every row length of its
\* receiver as they were.
C13_RowsOfOneLength ==
    out.tag = "Ok" =>
        /\ \A r \in 1 .. Len(out.val) : Len(out.val[r]) = Len(out.val[1])
        /\ op = "mul_scalar" =>
             /\ Len(out.val) = Len(a)
             /\ \A r \in 1 .. Len(a) : Len(out.val[r]) = Len(a[r])

\* C13's case: mul_scalar by a scalar other than one on a 2 x 2 matrix that
\* an operation before returned; the entries change, the dimensions do not.
C13_Witness ==
    /\ op = "mul_scalar"
    /\ b = 2
    /\ HasDims(a, 2, 2)
    /\ out.tag = "Ok"
    /\ out.val # a
    /\ HasDims(out.val, 2, 2)

\* A second case of C13: submatrix with the row index out of range and the
\* column index in range removes the column from every row.
C13_SubmatrixOutOfRange ==
    /\ op = "submatrix"
    /\ b = <<2, 0>>
    /\ HasDims(a, 2, 2)
    /\ out.tag = "Ok"
    /\ HasDims(out.val, 2, 1)

\* A case of C12: submatrix with indices in range, on a matrix of one row,
\* returns a matrix without rows.
C12_SubmatrixOfOneRow ==
    /\ op = "submatrix"
    /\ b = <<0, 0>>
    /\ HasDims(a, 1, 2)
    /\ out = Ok(<<>>)

====
